---- MODULE Spec2Model ----
(***************************************************************************)
(* Model of pyclaw's Controller.run (src/src/pyclaw/controller.py).        *)
(*                                                                         *)
(* The controller attributes live in the record `self`, the Solution in    *)
(* `solution`, the Solver in `solver`.  run() is cut at the points where   *)
(* control can leave it (a raise or a return) or where a collaborator is   *)
(* called; `pc` is the position inside run().  `log` is a history variable *)
(* recording, in program order, every externally visible operation run()   *)
(* performs.  Times are exact rationals [n, d] in lowest terms.            *)
(***************************************************************************)
EXTENDS Integers, Sequences, FiniteSets, TLC

\* ---------------------------------------------------------------- bounds
MaxN == 2
MaxGauges == 1
MaxNstepout == 2
MaxStartFrame == 1
MaxRuns == 2

\* ------------------------------------------------------------- rationals
Abs(x) == IF x < 0 THEN -x ELSE x

RECURSIVE GCD(_, _)
GCD(a, b) == IF b = 0 THEN a ELSE GCD(b, a % b)

\* the rational n/d (d > 0) in lowest terms
Rat(n, d) ==
    LET g == GCD(Abs(n), d)
    IN  IF g = 0 THEN [n |-> 0, d |-> 1] ELSE [n |-> n \div g, d |-> d \div g]

RInt(i) == [n |-> i, d |-> 1]
RAdd(a, b) == Rat(a.n * b.d + b.n * a.d, a.d * b.d)
RSub(a, b) == Rat(a.n * b.d - b.n * a.d, a.d * b.d)
RMulInt(a, k) == Rat(a.n * k, a.d)
RDivInt(a, k) == Rat(a.n, a.d * k)
RLeq(a, b) == a.n * b.d <= b.n * a.d

\* numpy.linspace(start, stop, num) for num >= 0, endpoint included:
\* num samples start + i*step, step = (stop-start)/(num-1)
linspace(start, stop, num) ==
    IF num <= 0 THEN << >>
    ELSE IF num = 1 THEN << start >>
    ELSE [i \in 1..num |->
            RAdd(start, RMulInt(RDivInt(RSub(stop, start), num - 1), i - 1))]

\* numpy.ones(k) for k >= 0: k placeholder markers 1.0
ones(k) == [i \in 1..k |-> RInt(1)]

\* ------------------------------------------------------------------ state
VARIABLES
    self,          \* Controller attributes (lines 94-200)
    solution,      \* the Solution: kind, t, start_frame, gauges, gauge_files
    solver,        \* the Solver: kind, _is_set_up, dt
    outdir_exists, \* os.path.exists(self.outdir)
    F_file,        \* content of F_path: the sequence of times of its lines
    pc,            \* position in run()
    frame,         \* FrameCounter local of run()
    output_times,  \* local of run()
    idx,           \* 1-based index into output_times of the loop variable t
    n,             \* evolve_to_time calls made for the current loop entry
    status,        \* local `status` of run(): << >> unbound, << v >> bound to v
    result,        \* how run() ended
    log            \* history: the operations performed, in program order

vars == << self, solution, solver, outdir_exists, F_file, pc, frame,
           output_times, idx, n, status, result, log >>

None == "None"

\* Controller.is_proc_0 (line 436)
is_proc_0 == TRUE

\* Controller.outdir_p (line 73): os.path.join(self.outdir, '_p')
outdir == "outdir"
outdir_p == "outdir/_p"

\* the caller's explicit time lists tried under output_style 2
OutTimesChoices ==
    { << >>,
      << RInt(1) >>,
      << RInt(0), RInt(2) >>,
      << RInt(0), RInt(2), RInt(1) >> }

SolverKinds == { None, "NotSolver", "Invalid", "Valid" }
SolutionKinds == { None, "Invalid", "StatesInvalid", "Valid" }

\* lines 339 / 384: `self.output_handler==None or self.output_format==None`
OutputDisabled == self.output_handler = None \/ self.output_format = None

\* ------------------------------------------------------------------- Init
\* The state after Controller(), Solver and Solution construction and the
\* caller's configuration.  An attribute that run() cannot read under the
\* chosen configuration is left at one value.
Init ==
    \E sk \in SolverKinds, ok \in SolutionKinds :
    LET valid == sk = "Valid" /\ ok = "Valid" IN
    \E style \in (IF valid THEN 1..4 ELSE {1}) :
    LET live == valid /\ style \in 1..3 IN
    \E N \in (IF valid /\ style \in {1, 3} THEN (-2)..MaxN ELSE {1}),
       tf \in (IF valid /\ style = 1 THEN {-1, 0, 2} ELSE {2}),
       ot \in (IF valid /\ style = 2 THEN OutTimesChoices ELSE {<< >>}),
       ns \in (IF valid /\ style = 3 THEN 0..MaxNstepout ELSE {1}),
       sf \in (IF live THEN 0..MaxStartFrame ELSE {0}),
       g \in (IF ok # None /\ sk # None THEN 0..MaxGauges ELSE {0}),
       kc \in (IF live THEN BOOLEAN ELSE {FALSE}),
       cF \in (IF live THEN BOOLEAN ELSE {FALSE}),
       h \in (IF live THEN {None, "pyclaw"} ELSE {"pyclaw"}),
       f \in (IF live THEN {None, "ascii"} ELSE {"ascii"}),
       clob \in (IF live THEN BOOLEAN ELSE {TRUE}),
       ex \in (IF live THEN BOOLEAN ELSE {FALSE}) :
    LET writes == live /\ h # None /\ f # None /\ ~(ex /\ ~clob) IN
    \E cp \in (IF writes THEN BOOLEAN ELSE {FALSE}),
       wai \in (IF writes THEN BOOLEAN ELSE {FALSE}),
       waa \in (IF writes THEN BOOLEAN ELSE {FALSE}) :
    /\ self = [ start_frame |-> 0,
                keep_copy |-> kc,
                frames |-> << >>,
                write_aux_init |-> wai,
                write_aux_always |-> waa,
                output_handler |-> h,
                output_format |-> f,
                output_clobber |-> clob,
                tfinal |-> RInt(tf),
                output_style |-> style,
                num_output_times |-> N,
                out_times |-> ot,
                nstepout |-> ns,
                compute_p |-> cp,
                compute_F |-> cF ]
    /\ solution = [ kind |-> ok, t |-> RInt(0), start_frame |-> sf,
                    gauges |-> g, gauge_files |-> << >> ]
    /\ solver = [ kind |-> sk, _is_set_up |-> FALSE, dt |-> "dt" ]
    /\ outdir_exists = ex
    /\ F_file = << >>
    /\ pc = "entry"
    /\ frame = 0
    /\ output_times = << >>
    /\ idx = 0
    /\ n = 0
    /\ status = << >>
    /\ result = [ kind |-> "running", value |-> None, status |-> << >> ]
    /\ log = << >>

\* ---------------------------------------------------------------- helpers
\* a raise leaving run(): the exception propagates to the caller
Raise(what) == [ kind |-> "raised", value |-> what, status |-> << >> ]
\* a return from run()
Return(what, st) == [ kind |-> "returned", value |-> what, status |-> st ]

\* number of evolve_to_time calls made so far in this run
EvolveCalls == Cardinality({ i \in DOMAIN log : log[i].op = "evolve" })

\* Grid.setup_gauge_files(outdir): one output file per gauge is opened,
\* its path derived from the output directory
setup_gauge_files(sol) ==
    [ sol EXCEPT !.gauge_files = [ i \in 1..sol.gauges |-> "open" ] ]

GaugeOpenEvents(sol) == [ i \in 1..sol.gauges |-> [ op |-> "gauge_open", g |-> i ] ]

\* Solver.setup(solution): marks the solver as set up
SolverSetup(s) == [ s EXCEPT !._is_set_up = TRUE ]

\* ------------------------------------------------------- run(): 298 - 306
Enter ==
    /\ pc = "entry"
    /\ IF solver.kind = None \/ solution.kind = None
       THEN /\ pc' = "done"
            /\ result' = Raise("NoSolverOrSolution")
            /\ UNCHANGED << self, solution, outdir_exists, frame, log >>
       ELSE /\ self' = [ self EXCEPT !.start_frame = solution.start_frame ]
            /\ IF solution.gauges > 0
               THEN \* the files are opened beneath outdir, which then exists
                    /\ solution' = setup_gauge_files(solution)
                    /\ outdir_exists' = TRUE
                    /\ log' = log \o GaugeOpenEvents(solution)
               ELSE UNCHANGED << solution, outdir_exists, log >>
            /\ frame' = solution.start_frame
            /\ pc' = "setup"
            /\ UNCHANGED result
    /\ UNCHANGED << solver, F_file, output_times, idx, n, status >>

\* mutant of LazySetup: setup and the dt reset are not guarded
LazySetup_Always ==
    /\ pc = "setup"
    /\ solver' = [ SolverSetup(solver) EXCEPT !.dt = "dt_initial" ]
    /\ log' = log \o << [ op |-> "setup" ], [ op |-> "set_dt" ] >>
    /\ pc' = "check"
    /\ UNCHANGED << self, solution, outdir_exists, F_file, frame,
                    output_times, idx, n, status, result >>

\* ------------------------------------------------------- run(): 308 - 310
\* An object that is no Solver may lack _is_set_up (AttributeError).
LazySetup ==
    /\ pc = "setup"
    /\ \/ /\ solver.kind = "NotSolver"
          /\ pc' = "done"
          /\ result' = Raise("AttributeError")
          /\ UNCHANGED << solver, log >>
       \/ /\ IF ~solver._is_set_up
             THEN /\ solver' = [ SolverSetup(solver) EXCEPT !.dt = "dt_initial" ]
                  /\ log' = log \o << [ op |-> "setup" ], [ op |-> "set_dt" ] >>
             ELSE UNCHANGED << solver, log >>
          /\ pc' = "check"
          /\ UNCHANGED result
    /\ UNCHANGED << self, solution, outdir_exists, F_file, frame,
                    output_times, idx, n, status >>

\* ------------------------------------------- check_validity(): 221 - 239
\* the message of the first failing check, or None
check_validity ==
    IF solver.kind = None THEN "No solver set in controller."
    ELSE IF solver.kind = "NotSolver" THEN "Solver is not of correct type."
    ELSE IF solver.kind = "Invalid" THEN "The solver failed to initialize properly"
    ELSE IF solution.kind = "Invalid" THEN "Initial solution is not valid."
    ELSE IF solution.kind = "StatesInvalid" THEN "Initial states are not valid."
    ELSE None

\* ------------------------------------------------------------ run(): 312
CheckValidity ==
    /\ pc = "check"
    /\ log' = Append(log, [ op |-> "check_validity" ])
    /\ IF check_validity # None
       THEN /\ pc' = "done"
            /\ result' = Raise(check_validity)
       ELSE /\ pc' = "gauge_values"
            /\ UNCHANGED result
    /\ UNCHANGED << self, solution, solver, outdir_exists, F_file, frame,
                    output_times, idx, n, status >>

\* ------------------------------------------------------------ run(): 315
WriteGaugeValues ==
    /\ pc = "gauge_values"
    /\ log' = Append(log, [ op |-> "write_gauge_values" ])
    /\ pc' = "schedule"
    /\ UNCHANGED << self, solution, solver, outdir_exists, F_file, frame,
                    output_times, idx, n, status, result >>

\* ------------------------------------------------------- run(): 318 - 327
\* mutant of StyleA: the sample count is num_output_times, not one more
StyleA_OneShort(t0, tf, N) == linspace(t0, tf, N)

\* output_style 1: np.linspace(self.solution.t, self.tfinal, num_output_times+1)
StyleA(t0, tf, N) == linspace(t0, tf, N + 1)

\* output_style 2: self.out_times
StyleB(ot) == ot

\* mutant of StyleC: the start frame is not subtracted
StyleC_IgnoresStart(N, sf) == ones(N + 1)

\* output_style 3: np.ones(num_output_times + 1 - start_frame)
StyleC(N, sf) == ones(N + 1 - sf)

\* The outcomes of computing output_times.  A negative sample count makes
\* np.linspace return an empty array or raise ValueError, depending on the
\* numpy release; a negative dimension makes np.ones raise ValueError.
ScheduleOutcomes ==
    IF self.output_style = 1
    THEN IF self.num_output_times + 1 < 0
         THEN { [ raised |-> "ValueError", times |-> << >> ],
                [ raised |-> None, times |-> << >> ] }
         ELSE { [ raised |-> None,
                  times |-> StyleA(solution.t, self.tfinal, self.num_output_times) ] }
    ELSE IF self.output_style = 2
    THEN { [ raised |-> None, times |-> StyleB(self.out_times) ] }
    ELSE IF self.output_style = 3
    THEN IF self.num_output_times + 1 - self.start_frame < 0
         THEN { [ raised |-> "ValueError", times |-> << >> ] }
         ELSE { [ raised |-> None,
                  times |-> StyleC(self.num_output_times, self.start_frame) ] }
    ELSE { [ raised |-> "Invalid output style", times |-> << >> ] }

\* ------------------------------------------------------- run(): 318 - 333
ComputeSchedule ==
    /\ pc = "schedule"
    /\ \E o \in ScheduleOutcomes :
          IF o.raised # None
          THEN /\ pc' = "done"
               /\ result' = Raise(o.raised)
               /\ UNCHANGED output_times
          ELSE IF Len(o.times) = 0
          THEN /\ pc' = "done"
               /\ result' = Return("halted", << >>)
               /\ UNCHANGED output_times
          ELSE /\ pc' = "initial"
               /\ output_times' = o.times
               /\ UNCHANGED result
    /\ UNCHANGED << self, solution, solver, outdir_exists, F_file, frame,
                    idx, n, status, log >>

\* ------------------------------------------------ operations of one point
\* mutant of KeepOps: no snapshot is ever retained
KeepOps_Never(fr) == << >>

\* lines 337-338 / 381-383: self.frames.append(copy.deepcopy(self.solution))
KeepOps(fr) ==
    IF self.keep_copy
    THEN << [ op |-> "keep", t |-> solution.t, frame |-> fr,
              index |-> Len(self.frames) + 1 ] >>
    ELSE << >>

\* solution.write(frame, path, file_prefix, ..., write_aux, write_p, ...)
WriteOp(fr, path, prefix, aux, p) ==
    [ op |-> "write", frame |-> fr, path |-> path, file_prefix |-> prefix,
      write_aux |-> aux, write_p |-> p, t |-> solution.t ]

\* lines 345-355: derived quantities of the initial point, path = outdir_p
DerivedOpsInitial(fr) ==
    IF self.compute_p
    THEN << [ op |-> "compute_p" ], WriteOp(fr, outdir_p, "claw_p", FALSE, TRUE) >>
    ELSE << >>

\* lines 387-397: derived quantities of a later point, path = outdir
DerivedOpsLoop(fr) ==
    IF self.compute_p
    THEN << [ op |-> "compute_p" ], WriteOp(fr, outdir, "claw_p", FALSE, TRUE) >>
    ELSE << >>

\* lines 357-366: main output of the initial point
MainOpInitial(fr) ==
    WriteOp(fr, outdir, "claw", self.write_aux_always \/ self.write_aux_init, FALSE)

\* lines 399-407: main output of a later point
MainOpLoop(fr) ==
    WriteOp(fr, outdir, "claw", self.write_aux_always, FALSE)

\* mutant of write_F: the file is opened for appending whatever the mode
write_F_AlwaysAppend(mode) ==
    IF self.compute_F
    THEN << [ op |-> "compute_F" ],
            [ op |-> "F_write", mode |-> "a", t |-> solution.t ] >>
    ELSE << >>

\* write_F(mode), lines 424-434
write_F(mode) ==
    IF self.compute_F
    THEN << [ op |-> "compute_F" ] >>
         \o (IF is_proc_0
             THEN << [ op |-> "F_write", mode |-> mode, t |-> solution.t ] >>
             ELSE << >>)
    ELSE << >>

\* mutant of FlushOps: the loop never flushes
FlushOps_None == << >>

\* lines 412-413: for gfile in gauge_files: gfile.flush()
FlushOps == [ i \in 1..Len(solution.gauge_files) |-> [ op |-> "flush", g |-> i ] ]

\* line 415: for gfile in gauge_files: gfile.close()
CloseOps == [ i \in 1..Len(solution.gauge_files) |-> [ op |-> "close", g |-> i ] ]

\* lines 337-368, in program order, once the existing-output check passed
InitialOps ==
    KeepOps(frame)
    \o (IF OutputDisabled THEN << >>
        ELSE DerivedOpsInitial(frame) \o << MainOpInitial(frame) >>)
    \o write_F("w")

\* mutant of LoopOps: the snapshot is retained after the writes
LoopOps_KeepLast ==
    << [ op |-> "increment" ] >>
    \o (IF OutputDisabled THEN << >>
        ELSE DerivedOpsLoop(frame + 1) \o << MainOpLoop(frame + 1) >>)
    \o KeepOps(frame + 1)
    \o write_F("a")
    \o FlushOps

\* lines 380-413, in program order
LoopOps ==
    << [ op |-> "increment" ] >>
    \o KeepOps(frame + 1)
    \o (IF OutputDisabled THEN << >>
        ELSE DerivedOpsLoop(frame + 1) \o << MainOpLoop(frame + 1) >>)
    \o write_F("a")
    \o FlushOps

\* the operations that can raise: persistence and the caller's callbacks
Fallible(e) == e.op \in { "compute_p", "write", "compute_F", "F_write" }

\* open(F_path, mode) needs the output directory; a main write creates it
CanRun(e) == e.op = "F_write" => (outdir_exists \/ ~OutputDisabled)

Has(ops, o) == \E i \in DOMAIN ops : ops[i].op = o

\* the state after the operations `ops` have been executed
FramesAfter(ops) ==
    IF Has(ops, "keep") THEN Append(self.frames, [ t |-> solution.t ])
    ELSE self.frames

\* mutant of FFileAfter: a write in mode 'w' keeps the lines already there
FFileAfter_KeepsLines(ops) ==
    IF ~Has(ops, "F_write") THEN F_file
    ELSE LET w == CHOOSE i \in DOMAIN ops : ops[i].op = "F_write"
         IN  Append(F_file, ops[w].t)

FFileAfter(ops) ==
    IF ~Has(ops, "F_write") THEN F_file
    ELSE LET w == CHOOSE i \in DOMAIN ops : ops[i].op = "F_write"
         IN  IF ops[w].mode = "w" THEN << ops[w].t >>
             ELSE Append(F_file, ops[w].t)

ExistsAfter(ops) == outdir_exists \/ Has(ops, "write") \/ Has(ops, "F_write")

\* mutant of FrameAfter: the counter is not advanced
FrameAfter_Stuck(ops) == frame

FrameAfter(ops) == IF Has(ops, "increment") THEN frame + 1 ELSE frame

\* execute a prefix of `ops`: all of it, or up to an operation that raises
Execute(ops, next_pc) ==
    \E k \in 0..Len(ops) :
        /\ k < Len(ops) => Fallible(ops[k + 1])
        /\ \A i \in 1..k : CanRun(ops[i])
        /\ LET done == SubSeq(ops, 1, k) IN
           /\ self' = [ self EXCEPT !.frames = FramesAfter(done) ]
           /\ F_file' = FFileAfter(done)
           /\ outdir_exists' = ExistsAfter(done)
           /\ frame' = FrameAfter(done)
           /\ log' = log \o done
        /\ IF k = Len(ops)
           THEN /\ pc' = next_pc
                /\ UNCHANGED result
           ELSE /\ pc' = "done"
                /\ result' = Raise(ops[k + 1].op)

\* lines 342-344
ExistingOutput == outdir_exists /\ self.output_clobber = FALSE

\* ------------------------------------------------------- run(): 337 - 371
InitialOutput ==
    /\ pc = "initial"
    /\ IF ~OutputDisabled /\ ExistingOutput
       THEN /\ self' = [ self EXCEPT !.frames = FramesAfter(KeepOps(frame)) ]
            /\ log' = log \o KeepOps(frame)
            /\ pc' = "done"
            /\ result' = Raise("Refusing to overwrite existing output data.")
            /\ UNCHANGED << F_file, outdir_exists, frame, idx, n >>
       ELSE /\ Execute(InitialOps, "loop")
            /\ idx' = 2
            /\ n' = 0
    /\ UNCHANGED << solution, solver, output_times, status >>

\* Solver.evolve_to_time(solution, tend): with a target the solution is
\* advanced to exactly that time, without one by a single internal step
evolve_to_time(sol, target) ==
    [ sol EXCEPT !.t = IF target = << >> THEN RAdd(sol.t, RInt(1)) ELSE target[1] ]

\* evolve_to_time calls one loop entry takes: lines 374-379
CallsPerEntry == IF self.output_style < 3 THEN 1 ELSE self.nstepout

\* mutant of Target: the loop runs over output_times, not output_times[1:]
Target_Previous ==
    IF self.output_style < 3 THEN << output_times[idx - 1] >> ELSE << >>

\* the target passed to evolve_to_time: line 375 / line 379
Target == IF self.output_style < 3 THEN << output_times[idx] >> ELSE << >>

\* ------------------------------------------------------- run(): 373 - 379
Evolve ==
    /\ pc = "loop"
    /\ idx <= Len(output_times)
    /\ n < CallsPerEntry
    /\ \/ /\ solution' = evolve_to_time(solution, Target)
          /\ solver' = [ solver EXCEPT !.dt = "dt_adapted" ]
          /\ status' = << EvolveCalls + 1 >>
          /\ log' = Append(log, [ op |-> "evolve", target |-> Target,
                                  status |-> << EvolveCalls + 1 >> ])
          /\ n' = n + 1
          /\ UNCHANGED << pc, result >>
       \/ /\ log' = Append(log, [ op |-> "evolve", target |-> Target,
                                  status |-> << >> ])
          /\ pc' = "done"
          /\ result' = Raise("EvolutionFailure")
          /\ UNCHANGED << solution, solver, status, n >>
    /\ UNCHANGED << self, outdir_exists, F_file, frame, output_times, idx >>

\* ------------------------------------------------------- run(): 380 - 413
OutputPoint ==
    /\ pc = "loop"
    /\ idx <= Len(output_times)
    /\ n >= CallsPerEntry
    /\ Execute(LoopOps, "loop")
    /\ idx' = idx + 1
    /\ n' = 0
    /\ UNCHANGED << solution, solver, output_times, status >>

\* ------------------------------------------------------- run(): 415 - 420
Finish ==
    /\ pc = "loop"
    /\ idx > Len(output_times)
    /\ solution' = [ solution EXCEPT
                       !.gauge_files = [ i \in DOMAIN solution.gauge_files |-> "closed" ],
                       !.start_frame = Len(self.frames) ]
    /\ log' = log \o CloseOps
               \o << [ op |-> "set_start_frame", value |-> Len(self.frames) ] >>
    /\ pc' = "done"
    /\ result' = IF status = << >> THEN Raise("UnboundLocalError")
                 ELSE Return("status", status)
    /\ UNCHANGED << self, solver, outdir_exists, F_file, frame, output_times,
                    idx, n, status >>

Next ==
    \/ Enter
    \/ LazySetup
    \/ CheckValidity
    \/ WriteGaugeValues
    \/ ComputeSchedule
    \/ InitialOutput
    \/ Evolve
    \/ OutputPoint
    \/ Finish

Spec == Init /\ [][Next]_vars

\* ------------------------------------------------- repeated run() calls
\* The caller invokes run() again on the same Controller, Solver and
\* Solution once the previous invocation has ended.  The locals of run()
\* are fresh; the attributes of the three objects, the output directory
\* and the functional log are as the previous invocation left them.  The
\* history is kept and a marker, recording how the previous invocation
\* ended, separates the invocations.
Rerun ==
    /\ pc = "done"
    /\ Cardinality({ i \in DOMAIN log : log[i].op = "run" }) + 1 < MaxRuns
    /\ pc' = "entry"
    /\ frame' = 0
    /\ output_times' = << >>
    /\ idx' = 0
    /\ n' = 0
    /\ status' = << >>
    /\ result' = [ kind |-> "running", value |-> None, status |-> << >> ]
    /\ log' = Append(log, [ op |-> "run", ended |-> result ])
    /\ UNCHANGED << self, solution, solver, outdir_exists, F_file >>

\* the configurations followed over several invocations: a solver that
\* passes or fails the validity check, a valid solution at start frame 0,
\* output_style 1 up to tfinal = 2 or output_style 3 with nstepout = 1,
\* at least two output points in the first invocation, with and without
\* keep_copy, compute_F, a persistence backend, an existing output
\* directory and output_clobber
InitMulti ==
    /\ Init
    /\ solver.kind \in { "Valid", "Invalid" }
    /\ solution.kind = "Valid"
    /\ solution.start_frame = 0
    /\ solution.gauges = 0
    /\ self.output_style \in { 1, 3 }
    /\ self.nstepout = 1
    /\ self.num_output_times \in 1..MaxN
    /\ self.tfinal = RInt(2)
    /\ self.output_format # None
    /\ ~self.compute_p
    /\ ~self.write_aux_init
    /\ ~self.write_aux_always

NextMulti == Next \/ Rerun

SpecMulti == InitMulti /\ [][NextMulti]_vars

\* ================================================================= claims
\* ---- reading the history
Count(o) == Cardinality({ i \in DOMAIN log : log[i].op = o })
CountBefore(o, i) == Cardinality({ j \in 1..(i - 1) : log[j].op = o })
Performed(o) == \E i \in DOMAIN log : log[i].op = o
EvolveIdx == { i \in DOMAIN log : log[i].op = "evolve" }

\* run() has ended
Ended == pc = "done"
Raised(what) == Ended /\ result.kind = "raised" /\ result.value = what
\* run() returned at line 333 / at line 420
Halted == Ended /\ result.kind = "returned" /\ result.value = "halted"
Completed == Ended /\ result.kind = "returned" /\ result.value = "status"
\* the for loop of line 373 ran to its end (line 415 was reached)
LoopExhausted == Ended /\ Performed("set_start_frame")

\* gauge values reach a gauge file only when the grid has gauges
GaugeValuesWritten == solution.gauges > 0 /\ Performed("write_gauge_values")

ValidityMessages ==
    { "No solver set in controller.", "Solver is not of correct type.",
      "The solver failed to initialize properly",
      "Initial solution is not valid.", "Initial states are not valid." }

\* C1: whenever the loop over a non-empty schedule is exhausted (every
\* evolution call and write succeeded), run() returns, and what it returns
\* is the status of the last evolve_to_time call.
C1_ReturnsLastStatus ==
    LoopExhausted =>
        /\ result.kind = "returned"
        /\ \A i \in EvolveIdx :
              (\A j \in EvolveIdx : j <= i) => result.status = log[i].status

\* C2: a run that fails at the entry check or at the validity check has
\* performed no side effect (no gauge stream opened, no solver setup, no dt
\* reassignment, no gauge values, snapshot, write or evolution), and the
\* validity check runs at most once and before the first evolution call.
C2_InvalidInputsNoSideEffects ==
    /\ (Raised("NoSolverOrSolution")
          \/ \E m \in ValidityMessages : Raised(m)) =>
            /\ \A i \in DOMAIN log : log[i].op = "check_validity"
            /\ self.frames = << >>
            /\ F_file = << >>
            /\ solution.gauge_files = << >>
            /\ ~solver._is_set_up
            /\ solver.dt = "dt"
    /\ Count("check_validity") <= 1
    /\ \A i \in EvolveIdx : CountBefore("check_validity", i) = 1

\* C3: a run that fails with the existing-output error has written no main
\* or derived snapshot and no functional-log line, and has opened no gauge
\* file and written no gauge value; with output disabled the error never
\* occurs.
C3_ExistingOutputBeforeAnyFile ==
    /\ Raised("Refusing to overwrite existing output data.") =>
            /\ ~Performed("write")
            /\ ~Performed("F_write")
            /\ ~Performed("gauge_open")
            /\ ~GaugeValuesWritten
    /\ OutputDisabled => ~Raised("Refusing to overwrite existing output data.")

\* the exits of run() after the schedule was computed: completion, the
\* halt on an empty schedule, a failure of evolution, persistence or a callback
LoopExit ==
    \/ LoopExhausted
    \/ Halted
    \/ \E w \in { "EvolutionFailure", "compute_p", "write", "compute_F", "F_write" } :
          Raised(w)

\* C4: on each exit of run() after the loop (completion, halt on an empty
\* schedule, propagated failure) every gauge stream that was opened has
\* been closed exactly once and none is left open.
C4_GaugesClosedOnEveryExit ==
    LoopExit =>
        \A g \in 1..Len(solution.gauge_files) :
            /\ solution.gauge_files[g] = "closed"
            /\ Cardinality({ i \in DOMAIN log :
                               log[i].op = "close" /\ log[i].g = g }) = 1

\* flushes of gauge stream g, in all and before history position i
Flushes(g) == Cardinality({ i \in DOMAIN log : log[i].op = "flush" /\ log[i].g = g })
FlushesBefore(g, i) ==
    Cardinality({ j \in 1..(i - 1) : log[j].op = "flush" /\ log[j].g = g })

\* C5 (as claimed): every output point, the initial one included, is
\* followed by a flush of every gauge stream before the next evolution call
\* or the end of the run, so a completed run has flushed each stream once
\* per output point.
C5_FlushAfterEveryPoint ==
    \A g \in 1..Len(solution.gauge_files) :
        /\ \A i \in EvolveIdx : FlushesBefore(g, i) = 1 + CountBefore("increment", i)
        /\ Completed => Flushes(g) = Len(output_times)

\* C5 (amended): every output point after the initial one is followed by a
\* flush of every gauge stream before the next evolution call or the end of
\* the run; the initial point is not flushed, so a completed run has
\* flushed each stream once per output point less one.
C5_FlushAfterEveryLaterPoint ==
    \A g \in 1..Len(solution.gauge_files) :
        /\ \A i \in EvolveIdx : FlushesBefore(g, i) = CountBefore("increment", i)
        /\ pc = "loop" => Flushes(g) = idx - 2
        /\ Completed => Flushes(g) = Len(output_times) - 1

\* C5 witness: a run with a gauge and at least two later output points has
\* ended, each point followed by its flush.
C5_Witness ==
    /\ Completed
    /\ Len(solution.gauge_files) >= 1
    /\ Len(output_times) = 3
    /\ Flushes(1) = 2

\* C6: whenever the schedule is empty, or output_style is 1 with
\* num_output_times + 1 <= 0, run() returns without raising, having made no
\* evolution call, kept no snapshot, written no output or functional-log
\* line, not advanced the frame counter and not changed the stored start
\* frame.
C6_EmptyScheduleHalts ==
    /\ Halted =>
          /\ ~Performed("evolve")
          /\ ~Performed("keep")
          /\ ~Performed("write")
          /\ ~Performed("F_write")
          /\ ~Performed("increment")
          /\ self.frames = << >>
          /\ F_file = << >>
          /\ frame = self.start_frame
          /\ solution.start_frame = self.start_frame
    /\ (Ended /\ Performed("write_gauge_values")
          /\ self.output_style = 1 /\ self.num_output_times + 1 <= 0) => Halted
    /\ (Ended /\ Performed("write_gauge_values")
          /\ self.output_style = 2 /\ self.out_times = << >>) => Halted

\* the schedule has been computed and is not empty
Scheduled == output_times # << >>

\* C7: under output_style 1 with N = num_output_times >= 0 the schedule has
\* exactly N+1 entries, starts at the solution's current time, ends at
\* tfinal (N >= 1), has the constant spacing (tfinal - t0)/N and is
\* non-decreasing when t0 <= tfinal; from 0 to 1 with N = 10 it is
\* 0, 1/10, ..., 1.
C7_StyleASchedule ==
    /\ (self.output_style = 1 /\ self.num_output_times >= 0) =>
          /\ (Ended /\ Performed("write_gauge_values")) => Scheduled
          /\ Scheduled =>
                LET N == self.num_output_times
                    ot == output_times
                IN  /\ Len(ot) = N + 1
                    /\ pc = "initial" => ot[1] = solution.t
                    /\ N >= 1 => ot[N + 1] = self.tfinal
                    /\ \A i \in 1..N :
                          RSub(ot[i + 1], ot[i]) = RDivInt(RSub(self.tfinal, ot[1]), N)
                    /\ RLeq(ot[1], self.tfinal) =>
                          \A i \in 1..N : RLeq(ot[i], ot[i + 1])
    /\ StyleA(RInt(0), RInt(1), 10) = [ i \in 1..11 |-> Rat(i - 1, 10) ]

\* C7 witness: the schedule from 0 to 2 with N = 2 has just been computed.
C7_Witness ==
    /\ pc = "initial"
    /\ self.output_style = 1
    /\ self.num_output_times = 2
    /\ output_times = << RInt(0), RInt(1), RInt(2) >>

\* C8: under output_styles 1 and 2 no evolution call is made for schedule
\* entry 0; the k-th evolve_to_time call has entry k (0-based) as its target
\* and precedes the k-th frame increment, so each later entry gets exactly
\* one call, in schedule order; under output_style 2 the schedule is
\* out_times itself.
C8_EvolveTargetsFollowSchedule ==
    self.output_style \in { 1, 2 } =>
        /\ \A i \in EvolveIdx :
              LET k == CountBefore("evolve", i) + 1
              IN  /\ k + 1 <= Len(output_times)
                  /\ log[i].target = << output_times[k + 1] >>
                  /\ CountBefore("increment", i) = k - 1
        /\ LoopExhausted => Count("evolve") = Len(output_times) - 1
        /\ (self.output_style = 2 /\ Scheduled) => output_times = self.out_times

\* C8 witness: a run over the unsorted list 0, 2, 1 completed with the
\* evolution targets 2 then 1.
C8_Witness ==
    /\ Completed
    /\ self.output_style = 2
    /\ self.out_times = << RInt(0), RInt(2), RInt(1) >>
    /\ Count("evolve") = 2
    /\ solution.t = RInt(1)

\* C9: under output_style 3 the schedule has num_output_times + 1 -
\* start_frame entries (none: the run halts), start_frame being the
\* solution's stored start frame read at entry; every evolve_to_time call has no target and each entry
\* after the first takes nstepout of them before its frame increment, so an
\* exhausted loop made nstepout * (N - start_frame) calls and produced
\* N + 1 - start_frame output points.
C9_StyleCSchedule ==
    self.output_style = 3 =>
        LET N == self.num_output_times
            sf == self.start_frame
        IN  /\ pc \notin { "entry", "done" } => sf = solution.start_frame
            /\ Scheduled => Len(output_times) = N + 1 - sf
            /\ Halted => N + 1 - sf = 0
            /\ (Ended /\ Performed("write_gauge_values") /\ N + 1 - sf >= 0) =>
                  (Scheduled \/ Halted)
            /\ \A i \in EvolveIdx :
                  /\ log[i].target = << >>
                  /\ CountBefore("evolve", i) \div self.nstepout
                        = CountBefore("increment", i)
            /\ \A i \in DOMAIN log :
                  log[i].op = "increment" =>
                     CountBefore("evolve", i)
                        = self.nstepout * (CountBefore("increment", i) + 1)
            /\ LoopExhausted =>
                  /\ Count("evolve") = self.nstepout * (N - sf)
                  /\ 1 + Count("increment") = N + 1 - sf

\* C9 witness: a resumed run (start frame 1) with N = 2 and nstepout = 2
\* completed after two evolution calls and two output points.
C9_Witness ==
    /\ Completed
    /\ self.output_style = 3
    /\ self.start_frame = 1
    /\ self.num_output_times = 2
    /\ self.nstepout = 2
    /\ Count("evolve") = 2
    /\ Count("increment") = 1

\* C10: with output_style not in 1, 2, 3 run() fails with the invalid-style
\* error having kept no snapshot, written no output and no functional-log
\* line, opened no gauge file, written no gauge value and made no evolution
\* call.
C10_InvalidStyleNoPartialOutput ==
    /\ (Ended /\ Performed("write_gauge_values") /\ self.output_style \notin 1..3)
          => Raised("Invalid output style")
    /\ Raised("Invalid output style") =>
          /\ ~Performed("keep")
          /\ ~Performed("write")
          /\ ~Performed("F_write")
          /\ ~Performed("evolve")
          /\ ~Performed("gauge_open")
          /\ ~GaugeValuesWritten

\* the retained snapshots recorded in the history, in order
KeepIdx == { i \in DOMAIN log : log[i].op = "keep" }

\* C11: with keep_copy enabled every snapshot appended to the retained list
\* stays at its index with the solution time recorded when it was taken;
\* the initial point's snapshot is taken before any frame increment and
\* each later one directly after its own increment; under output_styles 1
\* and 2 the snapshot of a later point carries that point's target time;
\* with no persistence backend a completed run that started with an empty
\* list holds exactly one snapshot per schedule entry; the list only grows
\* by appending.
C11_RetainedSnapshots ==
    /\ [](self.keep_copy =>
            /\ Len(self.frames) = Count("keep")
            /\ \A i \in KeepIdx :
                  LET k == CountBefore("keep", i) + 1
                  IN  /\ log[i].index = k
                      /\ self.frames[k].t = log[i].t
                      /\ CountBefore("increment", i) = k - 1
                      /\ k > 1 => log[i - 1].op = "increment"
                      /\ (k > 1 /\ self.output_style \in { 1, 2 }) =>
                            log[i].t = output_times[k]
                      /\ (k = 1 /\ self.output_style = 1) =>
                            log[i].t = output_times[1]
            /\ (Completed /\ OutputDisabled) =>
                  Len(self.frames) = Len(output_times))
    /\ [][ /\ Len(self.frames') >= Len(self.frames)
           /\ SubSeq(self.frames', 1, Len(self.frames)) = self.frames ]_vars

\* C11 witness: keep_copy without a persistence backend, tfinal = 2 with
\* N = 2 from t = 0: the completed run retained the times 0, 1, 2.
C11_Witness ==
    /\ Completed
    /\ self.keep_copy
    /\ OutputDisabled
    /\ self.output_style = 1
    /\ self.num_output_times = 2
    /\ self.frames = << [ t |-> RInt(0) ], [ t |-> RInt(1) ], [ t |-> RInt(2) ] >>

\* ---- reading the history of the current invocation
\* position of the marker that opened the current invocation (0: the first)
RunStart ==
    LET M == { i \in DOMAIN log : log[i].op = "run" }
    IN  IF M = { } THEN 0 ELSE CHOOSE i \in M : \A j \in M : j <= i
ThisRun(o) ==
    LET s == RunStart IN { i \in (s + 1)..Len(log) : log[i].op = o }

\* C12: with compute_F configured the functional log holds, from the first
\* write of the current invocation on, exactly the lines this invocation
\* wrote, in order, each beginning with the solution time of its output
\* point: the first write opens the file in mode 'w', every later one in
\* mode 'a', the k-th line is written after k-1 frame increments (one line
\* per output point) and under output_style 1 carries the k-th schedule
\* time; a completed invocation leaves one line per schedule entry, with
\* and without a persistence backend; a line is written only by the
\* reporting process.
C12_FunctionalLog ==
    /\ self.compute_F =>
          LET W == ThisRun("F_write")
              I == ThisRun("increment")
          IN  /\ W # { } => Len(F_file) = Cardinality(W)
              /\ \A i \in W :
                    LET k == Cardinality({ j \in W : j < i }) + 1
                    IN  /\ log[i].mode = (IF k = 1 THEN "w" ELSE "a")
                        /\ F_file[k] = log[i].t
                        /\ Cardinality({ j \in I : j < i }) = k - 1
                        /\ self.output_style = 1 => log[i].t = output_times[k]
              /\ Completed => Len(F_file) = Len(output_times)
    /\ Performed("F_write") => is_proc_0

\* C12 witness: a second invocation without a persistence backend has
\* completed over three output points; the log holds its three lines and
\* none of the lines the first invocation wrote.
C12_Witness ==
    /\ Completed
    /\ self.compute_F
    /\ OutputDisabled
    /\ Count("run") = 1
    /\ Count("F_write") > 3
    /\ F_file = << RInt(2), RInt(2), RInt(2) >>

\* a later invocation, resumed at a start frame k > 0, has written to the
\* functional log
ResumedRunWrote ==
    /\ self.compute_F
    /\ RunStart > 0
    /\ self.start_frame > 0
    /\ ThisRun("F_write") # { }

\* C13 (as claimed): once a run resumed at start frame k > 0 has written to
\* the functional log, the log holds the lines written by the earlier
\* invocations followed by the lines of the resumed one, each exactly once.
C13_ResumedRunAppends ==
    ResumedRunWrote =>
        /\ Len(F_file) = Count("F_write")
        /\ \A i \in DOMAIN log :
              log[i].op = "F_write" => F_file[CountBefore("F_write", i) + 1] = log[i].t

\* C13 (amended): once a run resumed at start frame k > 0 has written to
\* the functional log, the log holds exactly the lines of the resumed
\* invocation, in order; the lines the earlier invocations wrote have been
\* removed by the truncating first write.
C13_ResumedRunTruncates ==
    ResumedRunWrote =>
        LET W == ThisRun("F_write")
        IN  /\ Len(F_file) = Cardinality(W)
            /\ Len(F_file) < Count("F_write")
            /\ \A i \in W :
                  F_file[Cardinality({ j \in W : j < i }) + 1] = log[i].t

\* C13 witness: after a first invocation of three output points a second
\* one, resumed at start frame 3, has completed; of the six lines written
\* the log holds the last three.
C13_Witness ==
    /\ Completed
    /\ ResumedRunWrote
    /\ self.start_frame = 3
    /\ Count("F_write") = 6
    /\ Len(F_file) = 3

\* C14: once run() has seeded the frame counter, the counter equals the
\* start frame k read from the solution at entry plus the number of
\* increments made; an increment comes after the evolution call(s) of its
\* output point and before that point's snapshot and writes, so every
\* snapshot and every write of the i-th output point carries the frame
\* identifier k + i; an exhausted loop made one increment per schedule
\* entry after the first; the counter never decreases.
C14_FrameCounter ==
    /\ [](Performed("check_validity") =>
            /\ ~Performed("set_start_frame") => self.start_frame = solution.start_frame
            /\ frame = self.start_frame + Count("increment")
            /\ \A i \in DOMAIN log :
                  /\ log[i].op = "increment" =>
                        CountBefore("evolve", i)
                           = CallsPerEntry * (CountBefore("increment", i) + 1)
                  /\ log[i].op \in { "keep", "write" } =>
                        log[i].frame = self.start_frame + CountBefore("increment", i)
            /\ \A i \in EvolveIdx :
                  CountBefore("increment", i) = CountBefore("evolve", i) \div CallsPerEntry
            /\ LoopExhausted => Count("increment") = Len(output_times) - 1)
    /\ [][frame' >= frame]_vars

\* C14 witness: a run resumed at start frame 1 completed after two
\* increments; its last output point was written as frame 3.
C14_Witness ==
    /\ Completed
    /\ self.start_frame = 1
    /\ Count("increment") = 2
    /\ frame = 3
    /\ \E i \in DOMAIN log : log[i].op = "write" /\ log[i].frame = 3

\* C15: when run() has completed, the start frame it stored in the solution
\* is the number of frames produced so far, the start frame it was entered
\* with plus the output points of this run, and that number is also the
\* length of the retained list, with keep_copy enabled or not.
C15_StartFrameCountsProducedFrames ==
    Completed =>
        /\ solution.start_frame = self.start_frame + 1 + Count("increment")
        /\ solution.start_frame = Len(self.frames)

\* C16: over all invocations of run() with one Solver, setup and the
\* assignment dt = dt_initial are each performed at most once, in the first
\* invocation that reaches line 308, so every invocation that goes on to
\* the validity check finds them done exactly once; an invocation that
\* finds the solver set up changes nothing of it at lines 308-310, dt
\* staying as the previous invocation left it.
C16_SetupOnce ==
    /\ [](/\ Count("setup") <= 1
          /\ Count("set_dt") <= 1
          /\ solver._is_set_up <=> Performed("setup")
          /\ \A i \in DOMAIN log :
                /\ log[i].op = "check_validity" =>
                      /\ CountBefore("setup", i) = 1
                      /\ CountBefore("set_dt", i) = 1
                /\ log[i].op = "setup" =>
                      /\ CountBefore("check_validity", i) = 0
                      /\ log[i + 1].op = "set_dt")
    /\ [][(pc = "setup" /\ solver._is_set_up) => solver' = solver]_vars

\* C16 witness: a second invocation has passed lines 308-310 without
\* setting up again, dt still the value the first invocation's evolution
\* left.
C16_Witness ==
    /\ Count("run") = 1
    /\ pc = "check"
    /\ Count("setup") = 1
    /\ solver.dt = "dt_adapted"

\* C17: every derived-quantity snapshot (write_p) is written to outdir_p
\* and every main snapshot to outdir, and with compute_p configured the
\* main write of every output point directly follows the derived write of
\* the same frame.
C17_DerivedOutputPath ==
    \A i \in DOMAIN log :
        log[i].op = "write" =>
            /\ log[i].write_p => log[i].path = outdir_p
            /\ ~log[i].write_p =>
                  /\ log[i].path = outdir
                  /\ self.compute_p =>
                        /\ log[i - 1].op = "write"
                        /\ log[i - 1].write_p
                        /\ log[i - 1].frame = log[i].frame

\* ---- the order of the operations of one later output point
\* place of an operation in the order claimed for a later output point;
\* 10 stands for what follows the loop
Rank(e) ==
    IF e.op = "evolve" THEN 1
    ELSE IF e.op = "increment" THEN 2
    ELSE IF e.op = "keep" THEN 3
    ELSE IF e.op = "compute_p" THEN 4
    ELSE IF e.op = "write" THEN (IF e.write_p THEN 5 ELSE 6)
    ELSE IF e.op = "compute_F" THEN 7
    ELSE IF e.op = "F_write" THEN 8
    ELSE IF e.op = "flush" THEN 9
    ELSE 10

\* whether the configuration asks for the operation of rank r at a point
Required(r) ==
    IF r = 1 THEN CallsPerEntry > 0
    ELSE IF r = 2 THEN TRUE
    ELSE IF r = 3 THEN self.keep_copy
    ELSE IF r \in { 4, 5 } THEN ~OutputDisabled /\ self.compute_p
    ELSE IF r = 6 THEN ~OutputDisabled
    ELSE IF r \in { 7, 8 } THEN self.compute_F
    ELSE IF r = 9 THEN solution.gauges > 0
    ELSE FALSE

\* history position at which the loop begins: the first evolution call or
\* frame increment (past the end of the history when there is none)
LoopStart ==
    LET S == { j \in DOMAIN log : log[j].op \in { "evolve", "increment" } }
    IN  IF S = { } THEN Len(log) + 1 ELSE CHOOSE j \in S : \A k \in S : j <= k

\* operation b directly follows operation a within one output point
NextInPoint(a, b) ==
    /\ Rank(b) > Rank(a)
    /\ Rank(b) < 10
    /\ \A r \in (Rank(a) + 1)..(Rank(b) - 1) : ~Required(r)

\* a is the last operation of its output point
LastOfPoint(a) ==
    /\ \A r \in (Rank(a) + 1)..9 : ~Required(r)
    /\ a.op = "flush" => a.g = solution.gauges
    /\ a.op # "evolve"

\* b is the first operation of an output point
FirstOfPoint(b) == Rank(b) = (IF Required(1) THEN 1 ELSE 2)

\* C18: from the first evolution call on, the operations run() performs
\* form consecutive groups, one per later output point, each in the order
\* evolution call(s), frame increment, snapshot (keep_copy), derived
\* compute and write (compute_p), main write, functional-log line
\* (compute_F), flush of every gauge stream, no configured operation
\* missing, repeated or out of place; the next group, or the end of the
\* loop, begins only after the last operation of the group before; a main
\* write of the loop has write_aux = write_aux_always and the one of the
\* initial point write_aux = write_aux_always or write_aux_init.
C18_LoopOrder ==
    LET first == LoopStart IN
    /\ first <= Len(log) => FirstOfPoint(log[first])
    /\ \A i \in first..Len(log) :
          /\ i < Len(log) =>
                LET a == log[i]
                    b == log[i + 1]
                IN  \/ NextInPoint(a, b)
                    \/ /\ a.op = "evolve" /\ b.op = "evolve"
                       /\ CountBefore("evolve", i + 1) % CallsPerEntry # 0
                    \/ a.op = "flush" /\ b.op = "flush" /\ b.g = a.g + 1
                    \/ LastOfPoint(a) /\ (FirstOfPoint(b) \/ Rank(b) = 10)
                    \/ Rank(a) = 10 /\ Rank(b) = 10
          /\ log[i].op = "evolve" =>
                CountBefore("evolve", i) \div CallsPerEntry = CountBefore("increment", i)
    /\ \A i \in DOMAIN log :
          (log[i].op = "write" /\ ~log[i].write_p) =>
              log[i].write_aux =
                 (IF i >= first THEN self.write_aux_always
                  ELSE self.write_aux_always \/ self.write_aux_init)

\* C18 witness: a run with keep_copy, compute_p, compute_F, a persistence
\* backend, a gauge and write_aux_init alone has completed two later
\* output points.
C18_Witness ==
    /\ Completed
    /\ self.keep_copy /\ self.compute_p /\ self.compute_F
    /\ ~OutputDisabled
    /\ self.write_aux_init /\ ~self.write_aux_always
    /\ solution.gauges = 1
    /\ Count("increment") = 2
    /\ Flushes(1) = 2

\* C19: a run() entered with an empty retained list that fails with the
\* existing-output error leaves the list empty, with keep_copy enabled or
\* not, and leaves the solution's stored start frame at the value read at
\* entry.
C19_ExistingOutputLeavesFrames ==
    Raised("Refusing to overwrite existing output data.") =>
        /\ self.frames = << >>
        /\ ~Performed("keep")
        /\ solution.start_frame = self.start_frame

\* the invocation a history position belongs to (1: the first)
RunOf(i) == 1 + CountBefore("run", i)

\* every earlier invocation returned a status and the current one has not
\* failed
OnlyCompletedRuns ==
    /\ result.kind # "raised"
    /\ ~Halted
    /\ \A i \in DOMAIN log :
          log[i].op = "run" =>
              log[i].ended.kind = "returned" /\ log[i].ended.value = "status"

\* the snapshots and main writes of the history: the places where a frame
\* identifier is used for an output point
FrameUses ==
    { i \in DOMAIN log :
        \/ log[i].op = "keep"
        \/ log[i].op = "write" /\ ~log[i].write_p }

\* C20: over invocations of run() that all completed, starting from start
\* frame 0 and an empty retained list, a later invocation starts its frame
\* counter at or above the number of output points the earlier ones
\* produced, every frame identifier it uses for a snapshot or a main write
\* is greater than every identifier an earlier invocation used, and a
\* retained snapshot sits at the list index equal to its frame identifier.
C20_FrameIdsNeverReused ==
    OnlyCompletedRuns =>
        /\ (RunStart > 0 /\ ThisRun("check_validity") # { }) =>
              self.start_frame >= CountBefore("increment", RunStart)
                                    + CountBefore("run", RunStart) + 1
        /\ \A i \in FrameUses : \A j \in FrameUses :
              RunOf(i) < RunOf(j) => log[i].frame < log[j].frame
        /\ \A i \in DOMAIN log :
              log[i].op = "keep" => log[i].frame = log[i].index - 1

\* the same with keep_copy enabled only
C20_WithKeepCopy == self.keep_copy => C20_FrameIdsNeverReused

====
